---- MODULE Spec2Model ----
(***************************************************************************)
(* Incremental reconciliation of the grouped issue index                   *)
(* (getGroupKey, getDifference, getGroupIssueKeyActions,                   *)
(* getSubGroupIssueKeyActions of the issue store helpers) and the issue    *)
(* filter (checkIssueDateFilter, getFilteredIssues).                       *)
(*                                                                         *)
(* A string[] is a sequence of strings.  An optional string argument is a  *)
(* sequence of length 0 (undefined) or 1 (the string supplied).  A JS      *)
(* object used as a key-indexed table is a sequence of [key, value]        *)
(* entries in insertion order, which is the order Object.values returns    *)
(* for keys that are not integer-like.                                     *)
(***************************************************************************)
EXTENDS Naturals, Sequences, FiniteSets

VARIABLES
    previousIssueGroupProperties,     \* previous values of the group dimension
    currentIssueGroupProperties,      \* current values of the group dimension
    previousIssueSubGroupProperties,  \* previous values of the sub-group dimension
    currentIssueSubGroupProperties,   \* current values of the sub-group dimension
    op,                  \* the helper called last: "init", "diff", "group", "subgroup"
    restrictTo,          \* the third argument given to getDifference
    groupActionsArray,   \* getDifference on the group dimension
    subGroupActionsArray,\* getDifference on the sub-group dimension
    issueKeyActions,     \* the action list the planner returned
    groupId,             \* first argument of getGroupKey (optional)
    subGroupId,          \* second argument of getGroupKey (optional)
    groupKey,            \* what getGroupKey returned: <<>> before the call, <<key>> after
    issues,              \* the issues given to getFilteredIssues
    filters,             \* its filters argument: <<>> (undefined) or <<object>>
    displayFilters,      \* its displayFilters argument: <<>> (undefined) or <<object>>
    filteredIssues,      \* what getFilteredIssues returned: <<>> before the call, <<list>> after
    dateFilterKey,       \* the filterKey given to checkIssueDateFilter
    dateFilterResult,    \* what checkIssueDateFilter returned: <<>> before the call, <<result>> after
    dimensions,          \* 1: grouped only, 2: grouped and sub-grouped
    index,               \* the bucket paths that hold the issue
    pending,             \* the planned actions not yet applied to the index
    updates              \* how many times the issue has been changed

reconcileVars == <<previousIssueGroupProperties, currentIssueGroupProperties,
                   previousIssueSubGroupProperties, currentIssueSubGroupProperties,
                   op, restrictTo, groupActionsArray, subGroupActionsArray, issueKeyActions>>

keyVars == <<groupId, subGroupId, groupKey>>

filterVars == <<issues, filters, displayFilters, filteredIssues, dateFilterKey, dateFilterResult>>

indexVars == <<dimensions, index, pending, updates>>

vars == <<reconcileVars, keyVars, filterVars, indexVars>>

----------------------------------------------------------------------------
(* Bounds and input domains *)

MaxLen == 2

GroupValues == {"a", "a_c"}

SubGroupValues == {"c", "null"}

SeqsUpTo(S, n) == UNION {[1..k -> S] : k \in 0..n}

ToSet(s) == {s[i] : i \in DOMAIN s}

----------------------------------------------------------------------------
(* Constants of the program *)

ALL_ISSUES == "All Issues"

ADD == "ADD"

DELETE == "DELETE"

NoAction == "NONE"

----------------------------------------------------------------------------
(* Library calls *)

\* Array.prototype.includes
Includes(array, value) == \E i \in DOMAIN array : array[i] = value

\* uniq that removes nothing
uniq_Identity(array) == array

\* lodash uniq: the first occurrence of every value, in order
RECURSIVE uniq(_)
uniq(array) ==
    IF array = <<>> THEN <<>>
    ELSE LET init == uniq(SubSeq(array, 1, Len(array) - 1))
             last == array[Len(array)]
         IN  IF Includes(init, last) THEN init ELSE Append(init, last)

----------------------------------------------------------------------------
(* getGroupKey *)

\* JS truthiness of an optional string: supplied and not the empty string
Truthy(optString) == optString # <<>> /\ optString[1] # ""

\* the "null" sub-group is not special-cased
getGroupKey_NullNotSpecial(groupIdArg, subGroupIdArg) ==
    IF Truthy(groupIdArg) /\ Truthy(subGroupIdArg)
    THEN groupIdArg[1] \o "_" \o subGroupIdArg[1]
    ELSE IF Truthy(groupIdArg) THEN groupIdArg[1]
    ELSE ALL_ISSUES

getGroupKey(groupIdArg, subGroupIdArg) ==
    IF Truthy(groupIdArg) /\ Truthy(subGroupIdArg) /\ subGroupIdArg[1] # "null"
    THEN groupIdArg[1] \o "_" \o subGroupIdArg[1]
    ELSE IF Truthy(groupIdArg) THEN groupIdArg[1]
    ELSE ALL_ISSUES

----------------------------------------------------------------------------
(* getDifference *)

\* the ADD loop pushes every current value (the `continue` is lost)
getDifference_NoSkip(current, previous, action) ==
    LET ADDs    == current
        DELETEs == SelectSeq(previous, LAMBDA previousValue : ~Includes(current, previousValue))
    IN  IF action = NoAction THEN [ADD |-> ADDs, DELETE |-> DELETEs]
        ELSE IF action = ADD THEN [ADD |-> uniq(ADDs), DELETE |-> <<>>]
        ELSE [DELETE |-> uniq(DELETEs), ADD |-> <<>>]

\* the DELETE loop tests membership in previous instead of current
getDifference_DeleteTestsPrevious(current, previous, action) ==
    LET ADDs    == SelectSeq(current, LAMBDA currentValue : ~Includes(previous, currentValue))
        DELETEs == SelectSeq(previous, LAMBDA previousValue : ~Includes(previous, previousValue))
    IN  IF action = NoAction THEN [ADD |-> ADDs, DELETE |-> DELETEs]
        ELSE IF action = ADD THEN [ADD |-> uniq(ADDs), DELETE |-> <<>>]
        ELSE [DELETE |-> uniq(DELETEs), ADD |-> <<>>]

\* the ADD loop's membership test is inverted
getDifference_InvertedAdd(current, previous, action) ==
    LET ADDs    == SelectSeq(current, LAMBDA currentValue : Includes(previous, currentValue))
        DELETEs == SelectSeq(previous, LAMBDA previousValue : ~Includes(current, previousValue))
    IN  IF action = NoAction THEN [ADD |-> ADDs, DELETE |-> DELETEs]
        ELSE IF action = ADD THEN [ADD |-> uniq(ADDs), DELETE |-> <<>>]
        ELSE [DELETE |-> uniq(DELETEs), ADD |-> <<>>]

\* uniq is applied on every return path
getDifference_AlwaysUniq(current, previous, action) ==
    LET ADDs    == SelectSeq(current, LAMBDA currentValue : ~Includes(previous, currentValue))
        DELETEs == SelectSeq(previous, LAMBDA previousValue : ~Includes(current, previousValue))
    IN  IF action = NoAction THEN [ADD |-> uniq(ADDs), DELETE |-> uniq(DELETEs)]
        ELSE IF action = ADD THEN [ADD |-> uniq(ADDs), DELETE |-> <<>>]
        ELSE [DELETE |-> uniq(DELETEs), ADD |-> <<>>]

getDifference(current, previous, action) ==
    LET ADDs    == SelectSeq(current, LAMBDA currentValue : ~Includes(previous, currentValue))
        DELETEs == SelectSeq(previous, LAMBDA previousValue : ~Includes(current, previousValue))
    IN  IF action = NoAction THEN [ADD |-> ADDs, DELETE |-> DELETEs]
        ELSE IF action = ADD THEN [ADD |-> uniq(ADDs), DELETE |-> <<>>]
        ELSE [DELETE |-> uniq(DELETEs), ADD |-> <<>>]

----------------------------------------------------------------------------
(* getGroupIssueKeyActions *)

\* the two loops in the opposite order
getGroupIssueKeyActions_DeletesFirst(addArray, deleteArray) ==
    [i \in 1..Len(deleteArray) |-> [path |-> <<deleteArray[i]>>, action |-> DELETE]]
    \o [i \in 1..Len(addArray) |-> [path |-> <<addArray[i]>>, action |-> ADD]]

getGroupIssueKeyActions(addArray, deleteArray) ==
    [i \in 1..Len(addArray) |-> [path |-> <<addArray[i]>>, action |-> ADD]]
    \o [i \in 1..Len(deleteArray) |-> [path |-> <<deleteArray[i]>>, action |-> DELETE]]

----------------------------------------------------------------------------
(* getSubGroupIssueKeyActions *)

\* the iterations of `for (o of outer) for (i of inner)`, in order
RECURSIVE NestedLoop(_, _)
NestedLoop(outer, inner) ==
    IF outer = <<>> THEN <<>>
    ELSE [i \in 1..Len(inner) |-> <<Head(outer), inner[i]>>] \o NestedLoop(Tail(outer), inner)

\* removed groups are crossed with the current sub-group values
KeyActionWrites_DeleteAtCurrent(groupActions, subGroupActions, prevGroup, curGroup, prevSubGroup, curSubGroup) ==
    LET pass1 == NestedLoop(groupActions[ADD], curSubGroup)
        pass2 == NestedLoop(groupActions[DELETE], curSubGroup)
        pass3 == NestedLoop(subGroupActions[ADD], curGroup)
        pass4 == NestedLoop(subGroupActions[DELETE], prevGroup)
    IN  [i \in 1..Len(pass1) |->
            [key |-> getGroupKey(<<pass1[i][1]>>, <<pass1[i][2]>>),
             value |-> [path |-> <<pass1[i][1], pass1[i][2]>>, action |-> ADD]]]
        \o [i \in 1..Len(pass2) |->
            [key |-> getGroupKey(<<pass2[i][1]>>, <<pass2[i][2]>>),
             value |-> [path |-> <<pass2[i][1], pass2[i][2]>>, action |-> DELETE]]]
        \o [i \in 1..Len(pass3) |->
            [key |-> getGroupKey(<<pass3[i][2]>>, <<pass3[i][1]>>),
             value |-> [path |-> <<pass3[i][2], pass3[i][1]>>, action |-> ADD]]]
        \o [i \in 1..Len(pass4) |->
            [key |-> getGroupKey(<<pass4[i][2]>>, <<pass4[i][1]>>),
             value |-> [path |-> <<pass4[i][2], pass4[i][1]>>, action |-> DELETE]]]

\* the assignments issueKeyActions[key] = value of the four passes, in order
KeyActionWrites(groupActions, subGroupActions, prevGroup, curGroup, prevSubGroup, curSubGroup) ==
    LET pass1 == NestedLoop(groupActions[ADD], curSubGroup)
        pass2 == NestedLoop(groupActions[DELETE], prevSubGroup)
        pass3 == NestedLoop(subGroupActions[ADD], curGroup)
        pass4 == NestedLoop(subGroupActions[DELETE], prevGroup)
    IN  [i \in 1..Len(pass1) |->
            [key |-> getGroupKey(<<pass1[i][1]>>, <<pass1[i][2]>>),
             value |-> [path |-> <<pass1[i][1], pass1[i][2]>>, action |-> ADD]]]
        \o [i \in 1..Len(pass2) |->
            [key |-> getGroupKey(<<pass2[i][1]>>, <<pass2[i][2]>>),
             value |-> [path |-> <<pass2[i][1], pass2[i][2]>>, action |-> DELETE]]]
        \o [i \in 1..Len(pass3) |->
            [key |-> getGroupKey(<<pass3[i][2]>>, <<pass3[i][1]>>),
             value |-> [path |-> <<pass3[i][2], pass3[i][1]>>, action |-> ADD]]]
        \o [i \in 1..Len(pass4) |->
            [key |-> getGroupKey(<<pass4[i][2]>>, <<pass4[i][1]>>),
             value |-> [path |-> <<pass4[i][2], pass4[i][1]>>, action |-> DELETE]]]

\* an array push instead of a keyed assignment
AssignKey_AlwaysAppend(object, key, value) ==
    Append(object, [key |-> key, value |-> value])

\* object[key] = value: an existing key keeps its place, a new key goes last
AssignKey(object, key, value) ==
    IF \E i \in DOMAIN object : object[i].key = key
    THEN [i \in DOMAIN object |->
            IF object[i].key = key THEN [key |-> key, value |-> value] ELSE object[i]]
    ELSE Append(object, [key |-> key, value |-> value])

RECURSIVE AssignAll(_, _)
AssignAll(object, writes) ==
    IF writes = <<>> THEN object
    ELSE AssignAll(AssignKey(object, Head(writes).key, Head(writes).value), Tail(writes))

\* Object.values
ObjectValues(object) == [i \in DOMAIN object |-> object[i].value]

getSubGroupIssueKeyActions(groupActions, subGroupActions, prevGroup, curGroup, prevSubGroup, curSubGroup) ==
    ObjectValues(AssignAll(<<>>,
        KeyActionWrites(groupActions, subGroupActions, prevGroup, curGroup, prevSubGroup, curSubGroup)))

----------------------------------------------------------------------------
(* The caller: snapshot the issue, diff each dimension, plan the actions *)

NoDiff == [ADD |-> <<>>, DELETE |-> <<>>]

\* getGroupKey is not being called on its own
KeyIdle == groupId = <<>> /\ subGroupId = <<>> /\ groupKey = <<>>

\* getFilteredIssues and checkIssueDateFilter are not being called
FilterIdle ==
    /\ issues = <<>>
    /\ filters = <<>>
    /\ displayFilters = <<>>
    /\ filteredIssues = <<>>
    /\ dateFilterKey = "target_date"
    /\ dateFilterResult = <<>>

\* no index is being maintained
IndexIdle == dimensions = 2 /\ index = {} /\ pending = <<>> /\ updates = 0

Init ==
    /\ KeyIdle
    /\ FilterIdle
    /\ IndexIdle
    /\ previousIssueGroupProperties \in SeqsUpTo(GroupValues, MaxLen)
    /\ currentIssueGroupProperties \in SeqsUpTo(GroupValues, MaxLen)
    /\ previousIssueSubGroupProperties \in SeqsUpTo(SubGroupValues, MaxLen)
    /\ currentIssueSubGroupProperties \in SeqsUpTo(SubGroupValues, MaxLen)
    /\ op = "init"
    /\ restrictTo = NoAction
    /\ groupActionsArray = NoDiff
    /\ subGroupActionsArray = NoDiff
    /\ issueKeyActions = <<>>

UnchangedInputs ==
    UNCHANGED <<previousIssueGroupProperties, currentIssueGroupProperties,
                previousIssueSubGroupProperties, currentIssueSubGroupProperties,
                keyVars, filterVars, indexVars>>

CallGetDifference ==
    /\ op = "init"
    /\ \E action \in {NoAction, ADD, DELETE} :
        /\ restrictTo' = action
        /\ groupActionsArray' =
              getDifference(currentIssueGroupProperties, previousIssueGroupProperties, action)
        /\ subGroupActionsArray' =
              getDifference(currentIssueSubGroupProperties, previousIssueSubGroupProperties, action)
    /\ op' = "diff"
    /\ UNCHANGED issueKeyActions
    /\ UnchangedInputs

CallGetGroupIssueKeyActions ==
    /\ op = "diff"
    /\ issueKeyActions' = getGroupIssueKeyActions(groupActionsArray[ADD], groupActionsArray[DELETE])
    /\ op' = "group"
    /\ UNCHANGED <<restrictTo, groupActionsArray, subGroupActionsArray>>
    /\ UnchangedInputs

CallGetSubGroupIssueKeyActions ==
    /\ op = "diff"
    /\ issueKeyActions' =
          getSubGroupIssueKeyActions(groupActionsArray, subGroupActionsArray,
              previousIssueGroupProperties, currentIssueGroupProperties,
              previousIssueSubGroupProperties, currentIssueSubGroupProperties)
    /\ op' = "subgroup"
    /\ UNCHANGED <<restrictTo, groupActionsArray, subGroupActionsArray>>
    /\ UnchangedInputs

Next ==
    \/ CallGetDifference
    \/ CallGetGroupIssueKeyActions
    \/ CallGetSubGroupIssueKeyActions

Spec == Init /\ [][Next]_vars

----------------------------------------------------------------------------
(* A caller of getGroupKey alone *)

\* the strings given to getGroupKey
KeyStrings == {"", "a", "a_c", "c", "null", "_", ALL_ISSUES}

\* an optional string argument: omitted, or a string
OptionalStrings == {<<>>} \cup {<<str>> : str \in KeyStrings}

\* the reconciliation helpers are not being called
ReconcileIdle ==
    /\ previousIssueGroupProperties = <<>>
    /\ currentIssueGroupProperties = <<>>
    /\ previousIssueSubGroupProperties = <<>>
    /\ currentIssueSubGroupProperties = <<>>
    /\ op = "idle"
    /\ restrictTo = NoAction
    /\ groupActionsArray = NoDiff
    /\ subGroupActionsArray = NoDiff
    /\ issueKeyActions = <<>>

InitKey ==
    /\ ReconcileIdle
    /\ FilterIdle
    /\ IndexIdle
    /\ groupId \in OptionalStrings
    /\ subGroupId \in OptionalStrings
    /\ groupKey = <<>>

CallGetGroupKey ==
    /\ groupKey = <<>>
    /\ groupKey' = <<getGroupKey(groupId, subGroupId)>>
    /\ UNCHANGED <<groupId, subGroupId, reconcileVars, filterVars, indexVars>>

NextKey == CallGetGroupKey

SpecKey == InitKey /\ [][NextKey]_vars

----------------------------------------------------------------------------
(* checkIssueDateFilter and getFilteredIssues *)

(* An issue is a record of the fields the filters read.  A field that may be *)
(* null is <<>> (null) or <<value>>.  A date is a day number.  A date filter *)
(* expression "<date>;<type>" is the pair <<date, type>>.  A filters object  *)
(* maps every filter key to <<>> (key absent) or <<list of values>>.         *)

\* the filter keys that name an issue attribute, and the attribute
FILTER_TO_ISSUE_MAP == [priority |-> "priority", labels |-> "label_ids"]

\* the issue attributes whose value is an array
ArrayProperties == {"label_ids"}

parseDateFilter(filterValue) == [type |-> filterValue[2], date |-> filterValue[1]]

checkDateCriteria(date, filterDate, type) ==
    IF type = "after" THEN date >= filterDate ELSE date <= filterDate

\* an issue without the date passes the field
checkIssueDateFilter_MissingDatePasses(issue, filterKey, dateFilters) ==
    IF dateFilters = <<>> \/ Len(dateFilters[1]) = 0 THEN TRUE
    ELSE LET issueDate == issue[filterKey]
         IN  IF issueDate = <<>> THEN TRUE
             ELSE \A i \in DOMAIN dateFilters[1] :
                    LET parsed == parseDateFilter(dateFilters[1][i])
                    IN  checkDateCriteria(issueDate[1], parsed.date, parsed.type)

checkIssueDateFilter(issue, filterKey, dateFilters) ==
    IF dateFilters = <<>> \/ Len(dateFilters[1]) = 0 THEN TRUE
    ELSE LET issueDate == issue[filterKey]
         IN  IF issueDate = <<>> THEN FALSE
             ELSE \A i \in DOMAIN dateFilters[1] :
                    LET parsed == parseDateFilter(dateFilters[1][i])
                    IN  checkDateCriteria(issueDate[1], parsed.date, parsed.type)

\* how many expressions checkIssueDateFilter hands to the date matcher:
\* none on an early return, else up to the first one that does not match
DateMatcherCalls(issue, filterKey, dateFilters) ==
    IF dateFilters = <<>> \/ Len(dateFilters[1]) = 0 THEN 0
    ELSE LET issueDate == issue[filterKey]
             Fails(i) == LET parsed == parseDateFilter(dateFilters[1][i])
                         IN  ~checkDateCriteria(issueDate[1], parsed.date, parsed.type)
         IN  IF issueDate = <<>> THEN 0
             ELSE IF \E i \in DOMAIN dateFilters[1] : Fails(i)
             THEN CHOOSE i \in DOMAIN dateFilters[1] :
                    Fails(i) /\ \A j \in 1..(i - 1) : ~Fails(j)
             ELSE Len(dateFilters[1])

\* the keys of Object.entries(filters) whose value is a non-empty list
ActiveFilters(filtersObject) ==
    {filterKey \in DOMAIN filtersObject :
        filtersObject[filterKey] # <<>> /\ Len(filtersObject[filterKey][1]) > 0}

\* an array-valued attribute must hold every allowed value
FilterConditionHolds_EveryValue(issue, filterKey, filterValues) ==
    IF filterKey = "start_date" \/ filterKey = "target_date"
    THEN checkIssueDateFilter(issue, filterKey, <<filterValues>>)
    ELSE IF filterKey \notin DOMAIN FILTER_TO_ISSUE_MAP THEN TRUE
    ELSE LET issueKey   == FILTER_TO_ISSUE_MAP[filterKey]
             issueValue == issue[issueKey]
         IN  IF issueKey \in ArrayProperties
             THEN \A i \in DOMAIN filterValues : Includes(issueValue, filterValues[i])
             ELSE Includes(filterValues, issueValue)

\* a filter key without a mapping fails the issue
FilterConditionHolds_UnmappedFails(issue, filterKey, filterValues) ==
    IF filterKey = "start_date" \/ filterKey = "target_date"
    THEN checkIssueDateFilter(issue, filterKey, <<filterValues>>)
    ELSE IF filterKey \notin DOMAIN FILTER_TO_ISSUE_MAP THEN FALSE
    ELSE LET issueKey   == FILTER_TO_ISSUE_MAP[filterKey]
             issueValue == issue[issueKey]
         IN  IF issueKey \in ArrayProperties
             THEN \E i \in DOMAIN filterValues : Includes(issueValue, filterValues[i])
             ELSE Includes(filterValues, issueValue)

\* the callback of activeFilters.every
FilterConditionHolds(issue, filterKey, filterValues) ==
    IF filterKey = "start_date" \/ filterKey = "target_date"
    THEN checkIssueDateFilter(issue, filterKey, <<filterValues>>)
    ELSE IF filterKey \notin DOMAIN FILTER_TO_ISSUE_MAP THEN TRUE
    ELSE LET issueKey   == FILTER_TO_ISSUE_MAP[filterKey]
             issueValue == issue[issueKey]
         IN  IF issueKey \in ArrayProperties
             THEN \E i \in DOMAIN filterValues : Includes(issueValue, filterValues[i])
             ELSE Includes(filterValues, issueValue)

\* the sub-issue test comes after the test for no active filters
IssueIsKept_SubIssueLater(issue, filtersObject, displayFiltersArg) ==
    IF ActiveFilters(filtersObject) = {} THEN TRUE
    ELSE IF issue.parent_id # <<>> /\ displayFiltersArg # <<>> /\ displayFiltersArg[1].sub_issue = FALSE
    THEN FALSE
    ELSE \A filterKey \in ActiveFilters(filtersObject) :
            FilterConditionHolds(issue, filterKey, filtersObject[filterKey][1])

\* the callback of issues.filter
IssueIsKept(issue, filtersObject, displayFiltersArg) ==
    IF issue.parent_id # <<>> /\ displayFiltersArg # <<>> /\ displayFiltersArg[1].sub_issue = FALSE
    THEN FALSE
    ELSE IF ActiveFilters(filtersObject) = {} THEN TRUE
    ELSE \A filterKey \in ActiveFilters(filtersObject) :
            FilterConditionHolds(issue, filterKey, filtersObject[filterKey][1])

\* without filters the sub-issue display filter is still applied
getFilteredIssues_NoEarlyReturn(issuesArg, filtersArg, displayFiltersArg) ==
    IF filtersArg = <<>>
    THEN SelectSeq(issuesArg, LAMBDA issue :
            ~(issue.parent_id # <<>> /\ displayFiltersArg # <<>>
              /\ displayFiltersArg[1].sub_issue = FALSE))
    ELSE SelectSeq(issuesArg, LAMBDA issue : IssueIsKept(issue, filtersArg[1], displayFiltersArg))

getFilteredIssues(issuesArg, filtersArg, displayFiltersArg) ==
    IF filtersArg = <<>> THEN issuesArg
    ELSE SelectSeq(issuesArg, LAMBDA issue : IssueIsKept(issue, filtersArg[1], displayFiltersArg))

----------------------------------------------------------------------------
(* A caller of getFilteredIssues *)

MaxIssues == 2

\* (start_date, target_date) of an issue
IssueDates == {<< <<>>, <<>> >>, << <<1>>, <<2>> >>}

Issues ==
    {[parent_id |-> parent, priority |-> priority, label_ids |-> labels,
      start_date |-> dates[1], target_date |-> dates[2]] :
        parent \in {<<>>, <<"p">>},
        priority \in {"high", "low"},
        labels \in {<<>>, <<"l1", "l2">>},
        dates \in IssueDates}

FilterObjects ==
    [priority    : {<<>>, << <<"high">> >>, << <<"urgent", "low">> >>},
     labels      : {<< <<>> >>, << <<"l1">> >>, << <<"l3", "l2">> >>},
     target_date : {<< <<>> >>, << << <<2, "after">> >> >>,
                    << << <<1, "after">>, <<1, "before">> >> >>},
     start_date  : {<<>>, << << <<1, "after">>, <<1, "before">> >> >>},
     subscriber  : {<<>>, << <<"x">> >>}]

DisplayFilterObjects == {<<>>, <<[sub_issue |-> TRUE]>>, <<[sub_issue |-> FALSE]>>}

InitFilter ==
    /\ ReconcileIdle
    /\ KeyIdle
    /\ IndexIdle
    /\ issues \in SeqsUpTo(Issues, MaxIssues)
    /\ filters \in {<<>>} \cup {<<filtersObject>> : filtersObject \in FilterObjects}
    /\ displayFilters \in DisplayFilterObjects
    /\ filteredIssues = <<>>
    /\ dateFilterKey = "target_date"
    /\ dateFilterResult = <<>>

CallGetFilteredIssues ==
    /\ filteredIssues = <<>>
    /\ filteredIssues' = <<getFilteredIssues(issues, filters, displayFilters)>>
    /\ UNCHANGED <<issues, filters, displayFilters, dateFilterKey, dateFilterResult>>
    /\ UNCHANGED <<reconcileVars, keyVars, indexVars>>

NextFilter == CallGetFilteredIssues

SpecFilter == InitFilter /\ [][NextFilter]_vars

----------------------------------------------------------------------------
(* A caller of checkIssueDateFilter: one issue, date filters only *)

DateFilterObjects ==
    {filtersObject \in FilterObjects :
        /\ filtersObject.priority = <<>>
        /\ filtersObject.labels = << <<>> >>
        /\ filtersObject.subscriber = <<>>}

InitDate ==
    /\ ReconcileIdle
    /\ KeyIdle
    /\ IndexIdle
    /\ issues \in {<<issue>> : issue \in Issues}
    /\ filters \in {<<filtersObject>> : filtersObject \in DateFilterObjects}
    /\ displayFilters = <<>>
    /\ filteredIssues = <<>>
    /\ dateFilterKey = "target_date"
    /\ dateFilterResult = <<>>

CallCheckIssueDateFilter ==
    /\ dateFilterResult = <<>>
    /\ \E filterKey \in {"start_date", "target_date"} :
        /\ dateFilterKey' = filterKey
        /\ dateFilterResult' =
              <<[value |-> checkIssueDateFilter(issues[1], filterKey, filters[1][filterKey]),
                 matcherCalls |-> DateMatcherCalls(issues[1], filterKey, filters[1][filterKey])]>>
    /\ UNCHANGED <<issues, filters, displayFilters, filteredIssues>>
    /\ UNCHANGED <<reconcileVars, keyVars, indexVars>>

NextDate ==
    \/ CallCheckIssueDateFilter
    \/ CallGetFilteredIssues

SpecDate == InitDate /\ [][NextDate]_vars

----------------------------------------------------------------------------
(* A store that keeps the issue in an index of buckets and, after every     *)
(* change of the issue, applies the planned actions to it                   *)

MaxUpdates == 2

\* the buckets of an issue with these group and sub-group values
BucketPaths(dims, groupProperties, subGroupProperties) ==
    IF dims = 1
    THEN {<<g>> : g \in ToSet(groupProperties)}
    ELSE {<<g, sg>> : g \in ToSet(groupProperties), sg \in ToSet(subGroupProperties)}

InitIndex ==
    /\ KeyIdle
    /\ FilterIdle
    /\ dimensions \in {1, 2}
    /\ currentIssueGroupProperties \in SeqsUpTo(GroupValues, MaxLen)
    /\ currentIssueSubGroupProperties \in
          IF dimensions = 1 THEN {<<>>} ELSE SeqsUpTo(SubGroupValues, MaxLen)
    /\ previousIssueGroupProperties = currentIssueGroupProperties
    /\ previousIssueSubGroupProperties = currentIssueSubGroupProperties
    /\ op = "synced"
    /\ restrictTo = NoAction
    /\ groupActionsArray = NoDiff
    /\ subGroupActionsArray = NoDiff
    /\ issueKeyActions = <<>>
    /\ index = BucketPaths(dimensions, currentIssueGroupProperties, currentIssueSubGroupProperties)
    /\ pending = <<>>
    /\ updates = 0

\* the issue's grouping values change
UpdateIssue ==
    /\ op = "synced"
    /\ updates < MaxUpdates
    /\ updates' = updates + 1
    /\ previousIssueGroupProperties' = currentIssueGroupProperties
    /\ previousIssueSubGroupProperties' = currentIssueSubGroupProperties
    /\ currentIssueGroupProperties' \in SeqsUpTo(GroupValues, MaxLen)
    /\ currentIssueSubGroupProperties' \in
          IF dimensions = 1 THEN {<<>>} ELSE SeqsUpTo(SubGroupValues, MaxLen)
    /\ op' = "changed"
    /\ UNCHANGED <<restrictTo, groupActionsArray, subGroupActionsArray, issueKeyActions>>
    /\ UNCHANGED <<dimensions, index, pending>>
    /\ UNCHANGED <<keyVars, filterVars>>

\* the store diffs both dimensions and plans the actions
PlanActions ==
    /\ op = "changed"
    /\ LET groupActions ==
              getDifference(currentIssueGroupProperties, previousIssueGroupProperties, NoAction)
           subGroupActions ==
              getDifference(currentIssueSubGroupProperties, previousIssueSubGroupProperties, NoAction)
           planned ==
              IF dimensions = 1
              THEN getGroupIssueKeyActions(groupActions[ADD], groupActions[DELETE])
              ELSE getSubGroupIssueKeyActions(groupActions, subGroupActions,
                      previousIssueGroupProperties, currentIssueGroupProperties,
                      previousIssueSubGroupProperties, currentIssueSubGroupProperties)
       IN  /\ groupActionsArray' = groupActions
           /\ subGroupActionsArray' = subGroupActions
           /\ issueKeyActions' = planned
           /\ pending' = planned
           /\ op' = IF planned = <<>> THEN "synced" ELSE "planned"
    /\ UNCHANGED <<previousIssueGroupProperties, currentIssueGroupProperties,
                   previousIssueSubGroupProperties, currentIssueSubGroupProperties, restrictTo>>
    /\ UNCHANGED <<dimensions, index, updates>>
    /\ UNCHANGED <<keyVars, filterVars>>

\* the store applies one of the planned actions, in any order
ApplyAction ==
    /\ op = "planned"
    /\ \E i \in DOMAIN pending :
        /\ index' = IF pending[i].action = ADD
                    THEN index \cup {pending[i].path}
                    ELSE index \ {pending[i].path}
        /\ pending' = SubSeq(pending, 1, i - 1) \o SubSeq(pending, i + 1, Len(pending))
        /\ op' = IF Len(pending) = 1 THEN "synced" ELSE "planned"
    /\ UNCHANGED <<previousIssueGroupProperties, currentIssueGroupProperties,
                   previousIssueSubGroupProperties, currentIssueSubGroupProperties,
                   restrictTo, groupActionsArray, subGroupActionsArray, issueKeyActions>>
    /\ UNCHANGED <<dimensions, updates>>
    /\ UNCHANGED <<keyVars, filterVars>>

NextIndex ==
    \/ UpdateIssue
    \/ PlanActions
    \/ ApplyAction

SpecIndex == InitIndex /\ [][NextIndex]_vars

----------------------------------------------------------------------------
(* Properties *)

Count(array, value) == Cardinality({i \in DOMAIN array : array[i] = value})

NoRepeat(array) == \A i, j \in DOMAIN array : array[i] = array[j] => i = j

DistinctPaths(actions) ==
    \A i, j \in DOMAIN actions : actions[i].path = actions[j].path => i = j

Unrestricted == restrictTo = NoAction

\* the actions the two-dimension planner is required to return
RequiredActions ==
    {[path |-> <<g, s>>, action |-> ADD] :
        g \in ToSet(groupActionsArray[ADD]), s \in ToSet(currentIssueSubGroupProperties)}
    \cup {[path |-> <<g, s>>, action |-> ADD] :
        g \in ToSet(currentIssueGroupProperties), s \in ToSet(subGroupActionsArray[ADD])}
    \cup {[path |-> <<g, s>>, action |-> DELETE] :
        g \in ToSet(groupActionsArray[DELETE]), s \in ToSet(previousIssueSubGroupProperties)}
    \cup {[path |-> <<g, s>>, action |-> DELETE] :
        g \in ToSet(previousIssueGroupProperties), s \in ToSet(subGroupActionsArray[DELETE])}

\* C1: from unrestricted diffs getSubGroupIssueKeyActions returns exactly the
\* required actions: ADD at added group x current sub-groups and at current
\* groups x added sub-group, DELETE at removed group x previous sub-groups and
\* at previous groups x removed sub-group; none missing, none extra.
C1_ExactActions ==
    (op = "subgroup" /\ Unrestricted) => ToSet(issueKeyActions) = RequiredActions

\* C2: when a group value B is added and the sub-group values stay fixed, the
\* result has an ADD at [B, s] for every current sub-group value s, and no
\* action at a path whose group and sub-group are both in the previous and in
\* the current snapshot.
C2_CrossProductCoverage ==
    (/\ op = "subgroup"
     /\ Unrestricted
     /\ currentIssueSubGroupProperties = previousIssueSubGroupProperties)
    => /\ \A B \in ToSet(groupActionsArray[ADD]) :
            \A s \in ToSet(currentIssueSubGroupProperties) :
                Includes(issueKeyActions, [path |-> <<B, s>>, action |-> ADD])
       /\ \A g \in ToSet(previousIssueGroupProperties) \cap ToSet(currentIssueGroupProperties) :
            \A s \in ToSet(previousIssueSubGroupProperties) \cap ToSet(currentIssueSubGroupProperties) :
                \A i \in DOMAIN issueKeyActions : issueKeyActions[i].path # <<g, s>>

\* C3: when the previous and current lists are identical on both dimensions,
\* getDifference returns empty ADD and DELETE lists on each dimension and both
\* planners return the empty action list.
C3_NoOpReconciliation ==
    (/\ op # "init"
     /\ currentIssueGroupProperties = previousIssueGroupProperties
     /\ currentIssueSubGroupProperties = previousIssueSubGroupProperties)
    => /\ groupActionsArray = NoDiff
       /\ subGroupActionsArray = NoDiff
       /\ op \in {"group", "subgroup"} => issueKeyActions = <<>>

C3_Witness ==
    /\ op = "subgroup"
    /\ Unrestricted
    /\ currentIssueGroupProperties = previousIssueGroupProperties
    /\ currentIssueSubGroupProperties = previousIssueSubGroupProperties
    /\ Len(currentIssueGroupProperties) = 2
    /\ Len(currentIssueSubGroupProperties) = 2
    /\ issueKeyActions = <<>>

\* C4: in one two-dimension reconciliation no composed bucket key is written
\* by both an ADD pass and a DELETE pass, so the keyed table never replaces an
\* action by one of the opposite kind.
C4_NoOppositeWritesOnOneKey ==
    op = "subgroup" =>
        LET writes == KeyActionWrites(groupActionsArray, subGroupActionsArray,
                          previousIssueGroupProperties, currentIssueGroupProperties,
                          previousIssueSubGroupProperties, currentIssueSubGroupProperties)
        IN  \A i, j \in DOMAIN writes :
                writes[i].key = writes[j].key => writes[i].value.action = writes[j].value.action

DifferenceIsSetDifference(diff, current, previous) ==
    /\ ToSet(diff[ADD]) = ToSet(current) \ ToSet(previous)
    /\ ToSet(diff[DELETE]) = ToSet(previous) \ ToSet(current)
    /\ \A v \in ToSet(current) \cup ToSet(previous) :
        IF (v \in ToSet(current)) # (v \in ToSet(previous))
        THEN Includes(diff[ADD], v) # Includes(diff[DELETE], v)
        ELSE ~Includes(diff[ADD], v) /\ ~Includes(diff[DELETE], v)

C6_DifferenceMembership ==
    (op # "init" /\ Unrestricted) =>
        /\ DifferenceIsSetDifference(groupActionsArray,
              currentIssueGroupProperties, previousIssueGroupProperties)
        /\ DifferenceIsSetDifference(subGroupActionsArray,
              currentIssueSubGroupProperties, previousIssueSubGroupProperties)

C6_Witness ==
    /\ op = "diff"
    /\ Unrestricted
    /\ groupActionsArray[ADD] # <<>>
    /\ groupActionsArray[DELETE] # <<>>
    /\ subGroupActionsArray[DELETE] # <<>>
    /\ ToSet(currentIssueSubGroupProperties) \cap ToSet(previousIssueSubGroupProperties) # {}

\* C7 as stated: ADD \cup previous = current \cup (previous \cap current) and
\* DELETE \cup current = previous \cup (current \cap previous), as sets.
C7_OriginalOn(diff, current, previous) ==
    /\ ToSet(diff[ADD]) \cup ToSet(previous)
          = ToSet(current) \cup (ToSet(previous) \cap ToSet(current))
    /\ ToSet(diff[DELETE]) \cup ToSet(current)
          = ToSet(previous) \cup (ToSet(current) \cap ToSet(previous))

C7_Original ==
    (op # "init" /\ Unrestricted) =>
        /\ C7_OriginalOn(groupActionsArray,
              currentIssueGroupProperties, previousIssueGroupProperties)
        /\ C7_OriginalOn(subGroupActionsArray,
              currentIssueSubGroupProperties, previousIssueSubGroupProperties)

\* C7 amended: ADD \cup previous = current \cup previous and
\* DELETE \cup current = previous \cup current, as sets.
C7_AmendedOn(diff, current, previous) ==
    /\ ToSet(diff[ADD]) \cup ToSet(previous) = ToSet(current) \cup ToSet(previous)
    /\ ToSet(diff[DELETE]) \cup ToSet(current) = ToSet(previous) \cup ToSet(current)

C7_DiffCompleteness ==
    (op # "init" /\ Unrestricted) =>
        /\ C7_AmendedOn(groupActionsArray,
              currentIssueGroupProperties, previousIssueGroupProperties)
        /\ C7_AmendedOn(subGroupActionsArray,
              currentIssueSubGroupProperties, previousIssueSubGroupProperties)

C7_Witness ==
    /\ op = "diff"
    /\ Unrestricted
    /\ groupActionsArray[ADD] # <<>>
    /\ groupActionsArray[DELETE] # <<>>
    /\ ~(ToSet(previousIssueGroupProperties) \subseteq ToSet(currentIssueGroupProperties))

OneEntryPerOccurrence(diff, current, previous) ==
    \A v \in ToSet(current) \cup ToSet(previous) :
        /\ Count(diff[ADD], v) = IF Includes(previous, v) THEN 0 ELSE Count(current, v)
        /\ Count(diff[DELETE], v) = IF Includes(current, v) THEN 0 ELSE Count(previous, v)

RestrictedTo(diff, current, previous) ==
    LET other == IF restrictTo = ADD THEN DELETE ELSE ADD
    IN  /\ diff[other] = <<>>
        /\ NoRepeat(diff[restrictTo])
        /\ ToSet(diff[restrictTo]) = ToSet(getDifference(current, previous, NoAction)[restrictTo])
        /\ ToSet(diff[restrictTo]) =
              IF restrictTo = ADD THEN ToSet(current) \ ToSet(previous)
              ELSE ToSet(previous) \ ToSet(current)

C10_AddsThenDeletes ==
    op = "group" =>
        LET addKeys == groupActionsArray[ADD]
            deleteKeys == groupActionsArray[DELETE]
        IN  /\ Len(issueKeyActions) = Len(addKeys) + Len(deleteKeys)
            /\ \A i \in DOMAIN addKeys :
                issueKeyActions[i] = [path |-> <<addKeys[i]>>, action |-> ADD]
            /\ \A i \in DOMAIN deleteKeys :
                issueKeyActions[Len(addKeys) + i] = [path |-> <<deleteKeys[i]>>, action |-> DELETE]

C10_Witness ==
    /\ op = "group"
    /\ Len(groupActionsArray[ADD]) = 2
    /\ groupActionsArray[ADD][1] = groupActionsArray[ADD][2]
    /\ groupActionsArray[DELETE] # <<>>
    /\ Len(issueKeyActions) >= 3

Present(optString) == optString \notin {<<>>, <<"">>}

WritesOfCall ==
    KeyActionWrites(groupActionsArray, subGroupActionsArray,
        previousIssueGroupProperties, currentIssueGroupProperties,
        previousIssueSubGroupProperties, currentIssueSubGroupProperties)

\* C12: the bucket key identifies the combination: two distinct bucket paths
\* recorded by getSubGroupIssueKeyActions have distinct getGroupKey values, so
\* they never share one entry of the key-indexed accumulator.
C12_DistinctPathsDistinctKeys ==
    op = "subgroup" =>
        \A i, j \in DOMAIN WritesOfCall :
            WritesOfCall[i].value.path # WritesOfCall[j].value.path
                => WritesOfCall[i].key # WritesOfCall[j].key

\* C13 as stated: when a group value g is removed and the previous sub-group
\* list is empty, the two-dimension planner returns a DELETE action for g.
C13_Original ==
    (op = "subgroup" /\ Unrestricted /\ previousIssueSubGroupProperties = <<>>)
    => \A g \in ToSet(groupActionsArray[DELETE]) :
          \E i \in DOMAIN issueKeyActions :
              issueKeyActions[i].action = DELETE /\ issueKeyActions[i].path[1] = g

\* C13 amended: when a group value g is removed and the previous sub-group
\* list is empty, the two-dimension planner returns no action for g and no
\* DELETE action at all: every action it returns is an ADD at a current group
\* crossed with a current sub-group value.
C13_EmptyDimension ==
    (op = "subgroup" /\ Unrestricted /\ previousIssueSubGroupProperties = <<>>)
    => /\ \A g \in ToSet(groupActionsArray[DELETE]) :
            \A i \in DOMAIN issueKeyActions : issueKeyActions[i].path[1] # g
       /\ \A i \in DOMAIN issueKeyActions :
            /\ issueKeyActions[i].action = ADD
            /\ Includes(currentIssueGroupProperties, issueKeyActions[i].path[1])
            /\ Includes(currentIssueSubGroupProperties, issueKeyActions[i].path[2])

C13_Witness ==
    /\ op = "subgroup"
    /\ Unrestricted
    /\ previousIssueSubGroupProperties = <<>>
    /\ groupActionsArray[DELETE] # <<>>
    /\ currentIssueSubGroupProperties # <<>>
    /\ currentIssueGroupProperties # <<>>
    /\ issueKeyActions # <<>>

\* a field's value list is absent or empty
Unconstrained(filterValue) == filterValue = <<>> \/ filterValue[1] = <<>>

\* displayFilters.sub_issue is false and the issue has a parent
HiddenSubIssue(issue) ==
    issue.parent_id # <<>> /\ displayFilters = <<[sub_issue |-> FALSE]>>

\* the issue satisfies the categorical fields of the filters object
SatisfiesCategorical(issue, filtersObject) ==
    /\ Unconstrained(filtersObject.priority)
          \/ issue.priority \in ToSet(filtersObject.priority[1])
    /\ Unconstrained(filtersObject.labels)
          \/ ToSet(filtersObject.labels[1]) \cap ToSet(issue.label_ids) # {}

\* C14: with filters supplied, an issue is included only if it satisfies
\* every active filter field: a single-valued attribute must be one of the
\* allowed values, a multi-valued attribute must hold at least one of them; a
\* field whose list is absent or empty does not constrain, so an issue that
\* satisfies the categorical fields is included when no date field is active
\* and it is not a hidden sub-issue.
C14_FilterAndOrLaw ==
    (filteredIssues # <<>> /\ filters # <<>>) =>
        /\ \A i \in DOMAIN filteredIssues[1] :
            /\ SatisfiesCategorical(filteredIssues[1][i], filters[1])
            /\ Includes(issues, filteredIssues[1][i])
        /\ \A i \in DOMAIN issues :
            (/\ SatisfiesCategorical(issues[i], filters[1])
             /\ Unconstrained(filters[1].start_date)
             /\ Unconstrained(filters[1].target_date)
             /\ ~HiddenSubIssue(issues[i]))
            => Includes(filteredIssues[1], issues[i])

C14_Witness ==
    /\ filters # <<>>
    /\ filters[1].priority = << <<"urgent", "low">> >>
    /\ filters[1].labels = << <<"l3", "l2">> >>
    /\ filters[1].target_date = << <<>> >>
    /\ filters[1].start_date = <<>>
    /\ Len(issues) = 2
    /\ issues[1].priority = "low" /\ issues[1].label_ids = <<"l1", "l2">>
    /\ issues[2].priority = "high" /\ issues[2].label_ids = <<"l1", "l2">>
    /\ filteredIssues = << <<issues[1]>> >>

\* C16 as stated: for every call of getFilteredIssues an issue with a parent
\* is excluded whenever displayFilters.sub_issue is false.
C16_Original ==
    filteredIssues # <<>> =>
        \A i \in DOMAIN filteredIssues[1] : ~HiddenSubIssue(filteredIssues[1][i])

\* C16 amended: for every call of getFilteredIssues with filters supplied, an
\* issue with a parent is excluded whenever displayFilters.sub_issue is false,
\* also when it passes every filter and when no filter field is active.
C16_SubIssueFirst ==
    (filteredIssues # <<>> /\ filters # <<>>) =>
        \A i \in DOMAIN filteredIssues[1] : ~HiddenSubIssue(filteredIssues[1][i])

C16_Witness ==
    /\ filters # <<>>
    /\ ActiveFilters(filters[1]) = {}
    /\ displayFilters = <<[sub_issue |-> FALSE]>>
    /\ Len(issues) = 2
    /\ issues[1].parent_id # <<>>
    /\ issues[2].parent_id = <<>>
    /\ filteredIssues = << <<issues[2]>> >>

\* C17: without filters getFilteredIssues returns the input list, the same
\* issues in the same order, whatever the issues and displayFilters are.
C17_NoFiltersReturnsAll ==
    (filteredIssues # <<>> /\ filters = <<>>) => filteredIssues[1] = issues

C17_Witness ==
    /\ filters = <<>>
    /\ displayFilters = <<[sub_issue |-> FALSE]>>
    /\ Len(issues) = 2
    /\ issues[1].parent_id # <<>>
    /\ issues[1] # issues[2]
    /\ filteredIssues = <<issues>>

\* the filters object without its unmapped field
WithoutUnmapped(filtersObject) == [filtersObject EXCEPT !.subscriber = <<>>]

\* C18: an active filter field without an entry in the filter-to-attribute
\* mapping is skipped: with such a field the call raises no error and returns
\* what it returns without the field.
C18_UnmappedKeySkipped ==
    (filteredIssues # <<>> /\ filters # <<>> /\ "subscriber" \in ActiveFilters(filters[1])) =>
        /\ "subscriber" \notin DOMAIN FILTER_TO_ISSUE_MAP
        /\ filteredIssues[1] =
              getFilteredIssues(issues, <<WithoutUnmapped(filters[1])>>, displayFilters)
        /\ \A i \in DOMAIN issues :
            (/\ SatisfiesCategorical(issues[i], filters[1])
             /\ Unconstrained(filters[1].start_date)
             /\ Unconstrained(filters[1].target_date)
             /\ ~HiddenSubIssue(issues[i]))
            => Includes(filteredIssues[1], issues[i])

C18_Witness ==
    /\ filters # <<>>
    /\ ActiveFilters(filters[1]) = {"subscriber"}
    /\ Len(issues) = 2
    /\ filteredIssues = <<issues>>

\* the date matcher accepts the date for the expression
DateMatches(date, expression) ==
    checkDateCriteria(date, parseDateFilter(expression).date, parseDateFilter(expression).type)

\* what a date field with this expression list requires of the issue's date
DateFieldPasses(issueDate, expressions) ==
    \/ Unconstrained(expressions)
    \/ /\ issueDate # <<>>
       /\ \A i \in DOMAIN expressions[1] : DateMatches(issueDate[1], expressions[1][i])

\* C15: for start_date and target_date, with a non-empty expression list an
\* issue without the date is excluded and the date matcher is not consulted,
\* and an issue with the date passes the field only if every expression
\* matches; with an empty or absent list the field passes and neither the
\* date nor the matcher is consulted.  getFilteredIssues excludes an issue
\* that fails a date field.
C15_DateFields ==
    /\ dateFilterResult # <<>> =>
        LET expressions == filters[1][dateFilterKey]
            issueDate   == issues[1][dateFilterKey]
            result      == dateFilterResult[1]
        IN  /\ Unconstrained(expressions) => (result.value /\ result.matcherCalls = 0)
            /\ (~Unconstrained(expressions) /\ issueDate = <<>>)
                  => (~result.value /\ result.matcherCalls = 0)
            /\ (~Unconstrained(expressions) /\ issueDate # <<>>)
                  => /\ result.value
                        <=> \A i \in DOMAIN expressions[1] :
                                DateMatches(issueDate[1], expressions[1][i])
                     /\ result.matcherCalls >= 1
    /\ filteredIssues # <<>> =>
        \A i \in DOMAIN issues :
            Includes(filteredIssues[1], issues[i])
                <=> /\ DateFieldPasses(issues[i].start_date, filters[1].start_date)
                    /\ DateFieldPasses(issues[i].target_date, filters[1].target_date)

C15_Witness ==
    /\ dateFilterResult = <<[value |-> FALSE, matcherCalls |-> 0]>>
    /\ dateFilterKey = "target_date"
    /\ issues[1].target_date = <<>>
    /\ Len(filters[1].target_date[1]) = 2
    /\ filters[1].start_date = <<>>
    /\ filteredIssues = << <<>> >>

\* C19: starting from an index that holds the issue at the buckets of its
\* initial values, after every change whose planned actions have all been
\* applied, in any order, the bucket paths holding the issue are exactly
\* current groups x current sub-groups (the current groups, for one
\* dimension): no stale bucket remains and no live bucket is missing.
C19_IndexTracksIssue ==
    op = "synced" =>
        index = BucketPaths(dimensions, currentIssueGroupProperties, currentIssueSubGroupProperties)

====
